---- MODULE Spec2Model ----
(***************************************************************************)
(* SolAuditEstimator, src/lib/auditEstimator.js: the scoring functions,    *)
(* the configuration overlay, the version resolver with its process-wide   *)
(* cache, and the getEstimate pipeline.                                    *)
(*                                                                         *)
(* Times are hours in the source and functionTime is 0.5, so every time is *)
(* an integer number of HALF-HOURS here: Hours(h) is h hours.              *)
(*                                                                         *)
(* A source text is a sequence of chunks.  Each chunk is a piece of text   *)
(* named by a string; what the source's regular expressions find in a      *)
(* chunk is given by Occurrences.  Chunks are pieces that do not combine   *)
(* into a match across their borders.                                      *)
(***************************************************************************)
EXTENDS Integers, Sequences, FiniteSets, TLC

VARIABLES
  args,                 \* the pending call of an exported pure function
  result,               \* what that call returned
  solidityVersionCache, \* auditEstimator.js:77
  httpsGetCalls,        \* how often https.get was called, per versionShort
  call,                 \* the getFullVersion calls, by caller
  est,                  \* the getEstimate run of the process
  console,              \* what console.error / console.log were given
  solcLoads,            \* the arguments solc.loadRemoteVersion was given
  proc                  \* the process: running, exit(1) called, or crashed

vars == <<args, result, solidityVersionCache, httpsGetCalls, call, est,
          console, solcLoads, proc>>

(***************************************************************************)
(* Bounds                                                                  *)
(***************************************************************************)
MaxLines == 1001
MaxDocLen == 2
MaxUnits == 2
MaxFunctions == 11
MaxExtraCalls == 2
MaxDirectCalls == 2
MaxDiagnostics == 2

null == "null"

Hours(h) == 2 * h

(***************************************************************************)
(* auditEstimator.js:7-32, the default configuration                       *)
(***************************************************************************)
config ==
  [ sizeThresholds |-> [ small |-> 200, medium |-> 1000 ],
    baseTimes |-> [ small |-> Hours(5), medium |-> Hours(20),
                    large |-> Hours(50) ],
    complexityFactors |->
      [ functionTime |-> 1,            \* 0.5 hours
        baseFunctionCount |-> 10,
        externalCallTime |-> Hours(2),
        importTimePerImport |-> Hours(3),
        importTimeFlatRate |-> Hours(5),
        assemblyTime |-> Hours(3),
        upgradeability |->
          [ proxyPattern |-> Hours(3),
            storageLayout |-> Hours(5),
            adminRights |-> Hours(2),
            initialization |-> Hours(2),
            interContractConsistency |-> Hours(4) ] ] ]

(***************************************************************************)
(* Source texts                                                            *)
(***************************************************************************)
\* the pieces of text of the sources given to calculateComplexityTime and to
\* estimateUpgradeabilityComplexity
ComplexityChunks == { ".call(", "import", "assembly" }
UpgradeabilityChunks ==
  { "delegatecall", "proxy", "initialize", ".call(", "\n", "uint x;" }

\* a chunk of sizeThresholds.small newline characters
NewlineRun == "\n x 200"

\* how many matches of a pattern of the source lie in one chunk
Occurrences(pattern, chunk) ==
  IF chunk = pattern THEN 1
  ELSE IF pattern = "\n" /\ chunk = NewlineRun THEN config.sizeThresholds.small
  ELSE 0

RECURSIVE matchAll(_, _)
\* contractSource.match(/pattern/g) || [] : the matches, as a count
matchAll(contractSource, pattern) ==
  IF contractSource = <<>> THEN 0
  ELSE Occurrences(pattern, Head(contractSource))
         + matchAll(Tail(contractSource), pattern)

\* /pattern/.test(contractSource)
test(pattern, contractSource) ==
  \E i \in 1..Len(contractSource) : Occurrences(pattern, contractSource[i]) > 0

\* contractSource.split("\n").length
splitLines(contractSource) == matchAll(contractSource, "\n") + 1

(***************************************************************************)
(* Scoring, auditEstimator.js:114-164.  The functions read the module's    *)
(* config; it is their first parameter here.                               *)
(***************************************************************************)
detectUpgradeable(contractSource) ==
  \/ test("delegatecall", contractSource)
  \/ test("proxy", contractSource)
  \/ test("initialize", contractSource)

\* the buckets with exclusive upper bounds
calculateBaseTimeExclusive(cfg, lines) ==
  IF lines < cfg.sizeThresholds.small THEN cfg.baseTimes.small
  ELSE IF lines < cfg.sizeThresholds.medium THEN cfg.baseTimes.medium
  ELSE cfg.baseTimes.large

calculateBaseTime(cfg, lines) ==
  IF lines <= cfg.sizeThresholds.small THEN cfg.baseTimes.small
  ELSE IF lines <= cfg.sizeThresholds.medium THEN cfg.baseTimes.medium
  ELSE cfg.baseTimes.large

Max(a, b) == IF a >= b THEN a ELSE b

\* abi.filter((item) => item.type === "function")
filterFunctions(abi) == SelectSeq(abi, LAMBDA item : item.type = "function")

\* the loop body with the import cost added only when an import is present
unitComplexityGatedImport(cfg, contractSource, unit, countImports) ==
  LET funcs == filterFunctions(unit.abi)
      f == cfg.complexityFactors
      importMatches == matchAll(contractSource, "import")
  IN f.functionTime * Max(Len(funcs) - f.baseFunctionCount, 0)
       + f.externalCallTime * matchAll(contractSource, ".call(")
       + (IF countImports THEN f.importTimePerImport * importMatches
          ELSE IF importMatches > 0 THEN f.importTimeFlatRate ELSE 0)
       + (IF test("assembly", contractSource) THEN f.assemblyTime ELSE 0)

\* the loop body with the assembly test inside the flat-rate branch
unitComplexityAssemblyInElse(cfg, contractSource, unit, countImports) ==
  LET funcs == filterFunctions(unit.abi)
      f == cfg.complexityFactors
      importMatches == matchAll(contractSource, "import")
  IN f.functionTime * Max(Len(funcs) - f.baseFunctionCount, 0)
       + f.externalCallTime * matchAll(contractSource, ".call(")
       + (IF countImports THEN f.importTimePerImport * importMatches
          ELSE f.importTimeFlatRate
                 + (IF test("assembly", contractSource) THEN f.assemblyTime
                    ELSE 0))

\* the loop body with the external-call cost subtracted
unitComplexityCallsSubtracted(cfg, contractSource, unit, countImports) ==
  LET funcs == filterFunctions(unit.abi)
      f == cfg.complexityFactors
      importMatches == matchAll(contractSource, "import")
  IN f.functionTime * Max(Len(funcs) - f.baseFunctionCount, 0)
       - f.externalCallTime * matchAll(contractSource, ".call(")
       + (IF countImports THEN f.importTimePerImport * importMatches
          ELSE f.importTimeFlatRate)
       + (IF test("assembly", contractSource) THEN f.assemblyTime ELSE 0)

\* the body of the for-in loop of calculateComplexityTime, for one unit
unitComplexity(cfg, contractSource, unit, countImports) ==
  LET funcs == filterFunctions(unit.abi)
      f == cfg.complexityFactors
      importMatches == matchAll(contractSource, "import")
  IN f.functionTime * Max(Len(funcs) - f.baseFunctionCount, 0)
       + f.externalCallTime * matchAll(contractSource, ".call(")
       + (IF countImports THEN f.importTimePerImport * importMatches
          ELSE f.importTimeFlatRate)
       + (IF test("assembly", contractSource) THEN f.assemblyTime ELSE 0)

RECURSIVE complexityLoop(_, _, _, _, _)
\* the for-in loop of calculateComplexityTime over the units from index i on
complexityLoop(cfg, contractSource, compiledContract, countImports, i) ==
  IF i > Len(compiledContract) THEN 0
  ELSE unitComplexity(cfg, contractSource, compiledContract[i], countImports)
         + complexityLoop(cfg, contractSource, compiledContract, countImports,
                          i + 1)

calculateComplexityTime(cfg, contractSource, compiledContract, countImports) ==
  complexityLoop(cfg, contractSource, compiledContract, countImports, 1)

\* Object.values(factors).reduce((acc, val) => acc + val, 0)
RECURSIVE sumValues(_, _)
sumValues(factors, keys) ==
  IF keys = {} THEN 0
  ELSE LET k == CHOOSE x \in keys : TRUE
       IN factors[k] + sumValues(factors, keys \ {k})

\* the weights summed once for every trigger that is present
estimateUpgradeabilityPerTrigger(cfg, contractSource) ==
  LET factors == cfg.complexityFactors.upgradeability
      present == { t \in {"delegatecall", "proxy", "initialize"} :
                     test(t, contractSource) }
  IN Cardinality(present) * sumValues(factors, DOMAIN factors)

estimateUpgradeabilityComplexity(cfg, contractSource) ==
  IF ~detectUpgradeable(contractSource) THEN 0
  ELSE LET factors == cfg.complexityFactors.upgradeability
       IN sumValues(factors, DOMAIN factors)

(***************************************************************************)
(* Configuration overlay, auditEstimator.js:35-44                          *)
(***************************************************************************)
\* { ...a, ...b } : the own keys of a, then those of b over them
spread(a, b) ==
  [ k \in (DOMAIN a) \cup (DOMAIN b) |-> IF k \in DOMAIN b THEN b[k] ELSE a[k] ]

\* what fs.readFileSync(configPath, "utf8") finds: no file (also when
\* configPath is undefined), a text that is no JSON, or a JSON object
NoFile == [ kind |-> "ENOENT" ]
NotJSON == [ kind |-> "not json" ]
JSONFile(object) == [ kind |-> "json", object |-> object ]

\* readFileSync or JSON.parse throwing is caught and rethrown as an Error
loadConfigFromFile(file, currentConfig) ==
  IF file.kind # "json"
  THEN [ threw |-> TRUE, error |-> "Error loading external config" ]
  ELSE [ threw |-> FALSE, value |-> spread(currentConfig, file.object) ]

\* the values an overlay file gives to the keys it sets
overlayValue ==
  [ sizeThresholds |-> [ small |-> 100, medium |-> 500 ],
    baseTimes |-> [ small |-> Hours(9), medium |-> Hours(30),
                    large |-> Hours(60) ],
    complexityFactors |-> [ functionTime |-> 2, externalCallTime |-> Hours(1) ] ]

\* a group of an overlay file: some of the group's keys
OverlayGroups(g) ==
  { [ k \in keys |-> overlayValue[g][k] ] : keys \in SUBSET DOMAIN overlayValue[g] }

\* the overlay objects: some of the groups, each with some of its keys
Overlays ==
  UNION { { o \in [ groups -> UNION { OverlayGroups(g) : g \in groups } ] :
              \A g \in groups : o[g] \in OverlayGroups(g) }
          : groups \in SUBSET DOMAIN overlayValue }

ConfigFiles == { JSONFile(o) : o \in Overlays } \cup { NoFile, NotJSON }

(***************************************************************************)
(* Compiled artifacts: compiledOutput.contracts["contract.sol"], the units *)
(* in the order for-in visits them                                         *)
(***************************************************************************)
FunctionCounts == (config.complexityFactors.baseFunctionCount - 1)..MaxFunctions

\* how many entries of another kind than function an abi holds besides
OtherEntryCounts == { 0, 1 }

\* an abi of nf entries of kind function and ne entries of other kinds
abiOf(nf, ne) ==
  [ i \in 1..(nf + ne) |->
      IF i <= ne THEN [ type |-> "event" ] ELSE [ type |-> "function" ] ]

Abis == { abiOf(nf, ne) : nf \in FunctionCounts, ne \in OtherEntryCounts }

RECURSIVE SeqsUpTo(_, _)
SeqsUpTo(S, n) ==
  IF n = 0 THEN { <<>> }
  ELSE LET shorter == SeqsUpTo(S, n - 1)
       IN shorter \cup { Append(s, x) : s \in shorter, x \in S }

Artifacts == SeqsUpTo({ [ abi |-> a ] : a \in Abis }, MaxUnits)

ComplexitySources == SeqsUpTo(ComplexityChunks, MaxDocLen)
UpgradeabilitySources == SeqsUpTo(UpgradeabilityChunks, MaxDocLen)

(***************************************************************************)
(* Version resolver, auditEstimator.js:69-110                              *)
(***************************************************************************)
NoArgs == [ fn |-> "none" ]
Pending == [ done |-> FALSE ]
Returned(v) == [ done |-> TRUE, value |-> v ]

\* JavaScript values the resolver handles: null, or a string given as the
\* sequence of its parts
Null == [ type |-> "null" ]
Str(parts) == [ type |-> "string", text |-> parts ]

\* what `if (v)` and `v ? a : b` take as true: not null, not the empty string
truthy(v) == v.type = "string" /\ v.text # <<>>

\* the version-declaration chunks and what /(\^?\d+\.\d+\.\d+)/ captures in them
pragmaCapture ==
  [ p \in { "pragma solidity ^0.8.0;", "pragma solidity ^9.9.9;" } |->
      IF p = "pragma solidity ^0.8.0;" THEN "^0.8.0" ELSE "^9.9.9" ]

\* /^pragma solidity ...;/m matches at the start of the text or after a newline
atLineStart(contractSource, i) ==
  i = 1 \/ contractSource[i - 1] \in { "\n", NewlineRun }

pragmaMatches(contractSource) ==
  { i \in 1..Len(contractSource) :
      contractSource[i] \in DOMAIN pragmaCapture /\ atLineStart(contractSource, i) }

\* versionMatch && versionMatch[1]: the capture of the first match, or null
getSolidityVersion(contractSource) ==
  LET m == pragmaMatches(contractSource)
  IN IF m = {} THEN null
     ELSE pragmaCapture[contractSource[CHOOSE i \in m : \A j \in m : i <= j]]

\* s.replace(part, ""): the first occurrence of the part removed
replace(s, part) ==
  LET hits == { i \in 1..Len(s) : s[i] = part }
  IN IF hits = {} THEN s
     ELSE LET first == CHOOSE i \in hits : \A j \in hits : i <= j
          IN SubSeq(s, 1, first - 1) \o SubSeq(s, first + 1, Len(s))

\* the constraints getFullVersion is called with; null when no declaration matched
VersionShorts == { "^0.8.0", "^9.9.9", null }

\* build file names of the catalog
BuildFiles ==
  { <<"soljson-", "v0.8.0+commit.c7dfd78e", ".js">>,
    <<"soljson-", "v0.8.1+commit.df193b15", ".js">> }

\* list.releases of the catalog snapshots: the constraint ^0.8.0 is absent or
\* has a build file; ^9.9.9 and null are never in the catalog
Releases ==
  { <<>> } \cup { [ k \in {"^0.8.0"} |-> Str(f) ] : f \in BuildFiles }

\* what the response carries when it ends
ResponseBodies ==
  { [ kind |-> "json", releases |-> r ] : r \in Releases }
    \cup { [ kind |-> "not json" ] }

\* the fullVersion computed in the end handler, lines 97-100
fullVersionOf(releases, versionShort) ==
  IF versionShort \in DOMAIN releases /\ truthy(releases[versionShort])
  THEN Str(replace(replace(releases[versionShort].text, "soljson-"), ".js"))
  ELSE Null

\* if (solidityVersionCache[versionShort]), line 82
cacheHit(cache, versionShort) ==
  versionShort \in DOMAIN cache /\ truthy(cache[versionShort])

\* solidityVersionCache[versionShort] = fullVersion, line 103
cacheStore(cache, versionShort, fullVersion) ==
  [ k \in (DOMAIN cache) \cup {versionShort} |->
      IF k = versionShort THEN fullVersion ELSE cache[k] ]

\* the callers of getFullVersion: 0 is the getEstimate run, the others call the
\* exported function directly
Callers == 0..MaxDirectCalls
Idle == [ pc |-> "idle" ]

\* the callers whose promise is resolved
resolvedCallers == { c \in Callers : call[c].pc = "resolved" }

\* getFullVersion with every call fetching when the key is in the cache
getFullVersionFetchesOnHit(c, versionShort) ==
  IF cacheHit(solidityVersionCache, versionShort)
  THEN /\ call' = [ call EXCEPT ![c] =
                      [ pc |-> "resolved", versionShort |-> versionShort,
                        value |-> solidityVersionCache[versionShort],
                        fetched |-> TRUE, after |-> resolvedCallers ] ]
       /\ httpsGetCalls' =
            [ k \in (DOMAIN httpsGetCalls) \cup {versionShort} |->
                IF k \in DOMAIN httpsGetCalls
                THEN httpsGetCalls[k] + (IF k = versionShort THEN 1 ELSE 0)
                ELSE 1 ]
  ELSE /\ call' = [ call EXCEPT ![c] =
                      [ pc |-> "fetching", versionShort |-> versionShort,
                        fetched |-> TRUE, after |-> resolvedCallers ] ]
       /\ httpsGetCalls' =
            [ k \in (DOMAIN httpsGetCalls) \cup {versionShort} |->
                IF k \in DOMAIN httpsGetCalls
                THEN httpsGetCalls[k] + (IF k = versionShort THEN 1 ELSE 0)
                ELSE 1 ]

\* getFullVersion up to its return, lines 80-110: a cache hit gives a resolved
\* promise, a miss issues https.get and gives a pending one
getFullVersionCalled(c, versionShort) ==
  IF cacheHit(solidityVersionCache, versionShort)
  THEN /\ call' = [ call EXCEPT ![c] =
                      [ pc |-> "resolved", versionShort |-> versionShort,
                        value |-> solidityVersionCache[versionShort],
                        fetched |-> FALSE, after |-> resolvedCallers ] ]
       /\ UNCHANGED httpsGetCalls
  ELSE /\ call' = [ call EXCEPT ![c] =
                      [ pc |-> "fetching", versionShort |-> versionShort,
                        fetched |-> TRUE, after |-> resolvedCallers ] ]
       /\ httpsGetCalls' =
            [ k \in (DOMAIN httpsGetCalls) \cup {versionShort} |->
                IF k \in DOMAIN httpsGetCalls
                THEN httpsGetCalls[k] + (IF k = versionShort THEN 1 ELSE 0)
                ELSE 1 ]

\* a direct call of the exported getFullVersion
GetFullVersion(c, versionShort) ==
  /\ proc = "running"
  /\ c # 0
  /\ call[c].pc = "idle"
  /\ getFullVersionCalled(c, versionShort)
  /\ UNCHANGED <<args, result, solidityVersionCache, est, console, solcLoads,
                 proc>>

\* res.on("end"), lines 95-106: JSON.parse, the lookup, the cache write and
\* resolve; a JSON.parse that throws is an uncaught exception in the event
\* handler: neither resolve nor reject is called (pc "threw", the promise
\* stays pending) and the process ends
ResponseEnd(c, body) ==
  /\ proc = "running"
  /\ call[c].pc = "fetching"
  /\ IF body.kind = "json"
     THEN LET fullVersion == fullVersionOf(body.releases, call[c].versionShort)
          IN /\ solidityVersionCache' =
                  cacheStore(solidityVersionCache, call[c].versionShort,
                             fullVersion)
             /\ call' = [ call EXCEPT ![c] =
                            [ pc |-> "resolved",
                              versionShort |-> call[c].versionShort,
                              value |-> fullVersion,
                              fetched |-> TRUE, after |-> call[c].after ] ]
             /\ UNCHANGED proc
     ELSE /\ proc' = "uncaughtException"
          /\ call' = [ call EXCEPT ![c] =
                         [ pc |-> "threw", versionShort |-> call[c].versionShort,
                           fetched |-> TRUE, after |-> call[c].after ] ]
          /\ UNCHANGED solidityVersionCache
  /\ UNCHANGED <<args, result, httpsGetCalls, est, console, solcLoads>>

\* .on("error", reject), line 108
RequestError(c) ==
  /\ proc = "running"
  /\ call[c].pc = "fetching"
  /\ call' = [ call EXCEPT ![c] =
                 [ pc |-> "rejected", versionShort |-> call[c].versionShort,
                   fetched |-> TRUE, after |-> call[c].after ] ]
  /\ UNCHANGED <<args, result, solidityVersionCache, httpsGetCalls, est,
                 console, solcLoads, proc>>

InitResolver ==
  /\ args = NoArgs
  /\ result = Pending
  /\ solidityVersionCache = <<>>
  /\ httpsGetCalls = <<>>
  /\ call = [ c \in Callers |-> Idle ]
  /\ est = Idle
  /\ console = <<>>
  /\ solcLoads = <<>>
  /\ proc = "running"

NextResolver ==
  \/ \E c \in Callers, v \in VersionShorts : GetFullVersion(c, v)
  \/ \E c \in Callers, body \in ResponseBodies : ResponseEnd(c, body)
  \/ \E c \in Callers : RequestError(c)

SpecResolver == InitResolver /\ [][NextResolver]_vars

(***************************************************************************)
(* Estimate pipeline, auditEstimator.js:166-251                            *)
(***************************************************************************)
PipelineChunks ==
  { "pragma solidity ^0.8.0;", "pragma solidity ^9.9.9;", "\n", NewlineRun,
    "delegatecall" }

\* what fs.readFileSync(contractSourcePath, "utf8") finds
SourceFile(text) == [ kind |-> "text", text |-> text ]
SourceFiles ==
  { SourceFile(t) : t \in SeqsUpTo(PipelineChunks, MaxDocLen) } \cup { NoFile }

\* options.configPath is undefined (no --config given): readFileSync(undefined)
\* throws as for a missing file
NoConfigPath == [ kind |-> "undefined" ]

\* what configPath names
PipelineConfigFiles ==
  { NoConfigPath, NoFile, NotJSON,
    JSONFile([ baseTimes |-> [ small |-> Hours(9) ] ]) }

EstimateOptions ==
  [ configFile : PipelineConfigFiles, sourceFile : SourceFiles,
    countImports : BOOLEAN ]

\* the entries of compiledOutput.errors
Diagnostics ==
  { [ severity |-> "error", formattedMessage |-> "m1" ],
    [ severity |-> "warning", formattedMessage |-> "m2" ] }

hasError(errors) == \E i \in 1..Len(errors) : errors[i].severity = "error"

PipelineArtifacts ==
  SeqsUpTo({ [ abi |-> abiOf(0, 0) ], [ abi |-> abiOf(MaxFunctions, 1) ] },
           MaxUnits)

\* JSON.parse(output): errors (empty when the key is absent) and
\* contracts["contract.sol"]; a result with an error has no units
CompiledOutputs ==
  { o \in [ errors : SeqsUpTo(Diagnostics, MaxDiagnostics),
            contracts : PipelineArtifacts ] :
      hasError(o.errors) => o.contracts = <<>> }

\* what the callback of solc.loadRemoteVersion receives and compile returns
LoadOutcomes ==
  { [ err |-> TRUE ] } \cup { [ err |-> FALSE, output |-> o ] : o \in CompiledOutputs }

\* only the first message reported
firstMessageOnly(errors) == << errors[1].formattedMessage >>

\* compiledOutput.errors.map((err) => err.formattedMessage), line 220
formattedMessages(errors) ==
  [ i \in 1..Len(errors) |-> errors[i].formattedMessage ]

\* the total without the upgradeability time
totalWithoutUpgradeability(baseTime, complexityTime, upgradeabilityComplexityTime) ==
  baseTime + complexityTime

\* baseTime + complexityTime + upgradeabilityComplexityTime, line 247
totalEstimate(baseTime, complexityTime, upgradeabilityComplexityTime) ==
  baseTime + complexityTime + upgradeabilityComplexityTime

Rejected(options, error) ==
  [ pc |-> "rejected", options |-> options, error |-> error ]

\* getEstimate up to its first await, lines 194-210; the value loadConfigFromFile
\* returns is not used
GetEstimate(options) ==
  /\ proc = "running"
  /\ est.pc = "idle"
  /\ LET loaded == loadConfigFromFile(options.configFile, config)
     IN IF loaded.threw
        THEN /\ est' = Rejected(options, loaded.error)
             /\ UNCHANGED <<call, httpsGetCalls>>
        ELSE IF options.sourceFile.kind # "text"
        THEN /\ est' = Rejected(options, options.sourceFile.kind)
             /\ UNCHANGED <<call, httpsGetCalls>>
        ELSE LET contractSource == options.sourceFile.text
                 solidityVersionShort == getSolidityVersion(contractSource)
             IN /\ est' = [ pc |-> "awaitVersion", options |-> options,
                            contractSource |-> contractSource,
                            solidityVersionShort |-> solidityVersionShort ]
                /\ getFullVersionCalled(0, solidityVersionShort)
  /\ UNCHANGED <<args, result, solidityVersionCache, console, solcLoads, proc>>

\* the await of getFullVersion ends, lines 207-216: a rejection rejects
\* getEstimate, a value goes to compileContract, which calls
\* solc.loadRemoteVersion with it
VersionSettled ==
  /\ proc = "running"
  /\ est.pc = "awaitVersion"
  /\ call[0].pc \in { "resolved", "rejected" }
  /\ IF call[0].pc = "rejected"
     THEN /\ est' = Rejected(est.options, "request error")
          /\ UNCHANGED solcLoads
     ELSE /\ est' = [ pc |-> "awaitCompile", options |-> est.options,
                      contractSource |-> est.contractSource,
                      solidityVersionShort |-> est.solidityVersionShort,
                      solidityVersionFull |-> call[0].value ]
          /\ solcLoads' = Append(solcLoads, call[0].value)
  /\ UNCHANGED <<args, result, solidityVersionCache, httpsGetCalls, call,
                 console, proc>>

\* the callback of solc.loadRemoteVersion, lines 172-189, and the rest of
\* getEstimate, lines 217-250
CompilerLoaded(outcome) ==
  /\ proc = "running"
  /\ est.pc = "awaitCompile"
  /\ IF outcome.err
     THEN /\ est' = Rejected(est.options, "load error")
          /\ UNCHANGED <<console, proc>>
     ELSE LET compiledOutput == outcome.output
          IN IF Len(compiledOutput.errors) > 0
             THEN /\ console' = Append(console,
                        [ stream |-> "error",
                          label |-> "Compilation errors found:",
                          messages |-> formattedMessages(compiledOutput.errors) ])
                  /\ proc' = "exit(1)"
                  /\ est' = [ pc |-> "exited", options |-> est.options,
                              contractSource |-> est.contractSource,
                              compiledOutput |-> compiledOutput ]
             ELSE LET lines == splitLines(est.contractSource)
                      baseTime == calculateBaseTime(config, lines)
                      complexityTime ==
                        calculateComplexityTime(config, est.contractSource,
                          compiledOutput.contracts, est.options.countImports)
                      upgradeabilityComplexityTime ==
                        estimateUpgradeabilityComplexity(config,
                                                         est.contractSource)
                  IN /\ console' = console \o
                          << [ stream |-> "log", label |-> "Base Time",
                               hours |-> baseTime ],
                             [ stream |-> "log", label |-> "Complexity Time",
                               hours |-> complexityTime ],
                             [ stream |-> "log",
                               label |-> "Upgradeability Complexity Time",
                               hours |-> upgradeabilityComplexityTime ],
                             [ stream |-> "log",
                               label |-> "Total estimated audit time",
                               hours |-> totalEstimate(baseTime, complexityTime,
                                           upgradeabilityComplexityTime) ] >>
                     /\ est' = [ pc |-> "done", options |-> est.options,
                                 contractSource |-> est.contractSource,
                                 compiledOutput |-> compiledOutput ]
                     /\ UNCHANGED proc
  /\ UNCHANGED <<args, result, solidityVersionCache, httpsGetCalls, call,
                 solcLoads>>

Init == InitResolver

Next ==
  \/ \E options \in EstimateOptions : GetEstimate(options)
  \/ \E body \in ResponseBodies : ResponseEnd(0, body)
  \/ RequestError(0)
  \/ VersionSettled
  \/ \E outcome \in LoadOutcomes : CompilerLoaded(outcome)

Spec == Init /\ [][Next]_vars

(***************************************************************************)
(* The exported pure functions, each applied to inputs from bounded sets   *)
(***************************************************************************)
PureArgs ==
  { [ fn |-> "calculateBaseTime", lines |-> n ] : n \in 0..MaxLines }
  \cup { [ fn |-> "calculateComplexityTime", contractSource |-> s,
           compiledContract |-> c, countImports |-> b ] :
           s \in ComplexitySources, c \in Artifacts, b \in BOOLEAN }
  \cup { [ fn |-> "estimateUpgradeabilityComplexity", contractSource |-> s ] :
           s \in UpgradeabilitySources }
  \cup { [ fn |-> "loadConfigFromFile", file |-> f ] : f \in ConfigFiles }

CallCalculateBaseTime ==
  /\ args.fn = "calculateBaseTime" /\ ~result.done
  /\ result' = Returned(calculateBaseTime(config, args.lines))
  /\ UNCHANGED <<args, solidityVersionCache, httpsGetCalls, call, est,
                 console, solcLoads, proc>>

CallCalculateComplexityTime ==
  /\ args.fn = "calculateComplexityTime" /\ ~result.done
  /\ result' = Returned(calculateComplexityTime(config, args.contractSource,
                          args.compiledContract, args.countImports))
  /\ UNCHANGED <<args, solidityVersionCache, httpsGetCalls, call, est,
                 console, solcLoads, proc>>

CallEstimateUpgradeabilityComplexity ==
  /\ args.fn = "estimateUpgradeabilityComplexity" /\ ~result.done
  /\ result' = Returned(estimateUpgradeabilityComplexity(config,
                          args.contractSource))
  /\ UNCHANGED <<args, solidityVersionCache, httpsGetCalls, call, est,
                 console, solcLoads, proc>>

CallLoadConfigFromFile ==
  /\ args.fn = "loadConfigFromFile" /\ ~result.done
  /\ result' = Returned(loadConfigFromFile(args.file, config))
  /\ UNCHANGED <<args, solidityVersionCache, httpsGetCalls, call, est,
                 console, solcLoads, proc>>

(***************************************************************************)
(* Properties of the scoring functions and of the overlay                  *)
(***************************************************************************)
BaseTimeReturned == args.fn = "calculateBaseTime" /\ result.done
ComplexityReturned == args.fn = "calculateComplexityTime" /\ result.done
UpgradeabilityReturned ==
  args.fn = "estimateUpgradeabilityComplexity" /\ result.done
LoadConfigReturned == args.fn = "loadConfigFromFile" /\ result.done

\* C1: calculateBaseTime returns baseTimes.small for n <= sizeThresholds.small,
\* baseTimes.medium for sizeThresholds.small < n <= sizeThresholds.medium and
\* baseTimes.large above; both upper bounds are inclusive.
C1_BaseTimeBuckets ==
  BaseTimeReturned =>
    LET n == args.lines
        t == config.sizeThresholds
    IN /\ (n <= t.small) => (result.value = config.baseTimes.small)
       /\ (t.small < n /\ n <= t.medium) => (result.value = config.baseTimes.medium)
       /\ (n > t.medium) => (result.value = config.baseTimes.large)
       /\ (n = t.small + 1) => (result.value = config.baseTimes.medium)

C1_Witness ==
  /\ BaseTimeReturned
  /\ args.lines = config.sizeThresholds.small + 1
  /\ result.value = config.baseTimes.medium

Triggers == { "delegatecall", "proxy", "initialize" }

\* the triggers that occur in a source text
triggersIn(contractSource) ==
  { t \in Triggers : \E i \in 1..Len(contractSource) : contractSource[i] = t }

fiveWeights ==
  LET u == config.complexityFactors.upgradeability
  IN u.proxyPattern + u.storageLayout + u.adminRights + u.initialization
       + u.interContractConsistency

\* C2: estimateUpgradeabilityComplexity is 0 when none of delegatecall, proxy,
\* initialize occurs, and the sum of the five upgradeability weights when one,
\* two or all three occur.
C2_UpgradeabilityAllOrNothing ==
  UpgradeabilityReturned =>
    IF triggersIn(args.contractSource) = {} THEN result.value = 0
    ELSE result.value = fiveWeights

C2_Witness ==
  /\ UpgradeabilityReturned
  /\ Cardinality(triggersIn(args.contractSource)) = 2
  /\ result.value = fiveWeights
  /\ fiveWeights > 0

\* the entries of kind function of a unit
unitFunctionCount(unit) ==
  Cardinality({ i \in DOMAIN unit.abi : unit.abi[i].type = "function" })

occurrencesOf(contractSource, chunk) ==
  Cardinality({ i \in 1..Len(contractSource) : contractSource[i] = chunk })

RECURSIVE functionSurplusTime(_, _)
\* functionTime * max(unitFunctionCount - baseFunctionCount, 0) over the units
functionSurplusTime(compiledContract, n) ==
  IF n = 0 THEN 0
  ELSE LET f == config.complexityFactors
           c == unitFunctionCount(compiledContract[n])
       IN (IF c > f.baseFunctionCount
           THEN f.functionTime * (c - f.baseFunctionCount) ELSE 0)
            + functionSurplusTime(compiledContract, n - 1)

importCost(contractSource, countImports) ==
  IF countImports
  THEN config.complexityFactors.importTimePerImport
         * occurrencesOf(contractSource, "import")
  ELSE config.complexityFactors.importTimeFlatRate

\* the document-level signals, counted once
documentSignals(contractSource, countImports) ==
  config.complexityFactors.externalCallTime * occurrencesOf(contractSource, ".call(")
    + importCost(contractSource, countImports)
    + (IF occurrencesOf(contractSource, "assembly") > 0
       THEN config.complexityFactors.assemblyTime ELSE 0)

complexityIn(countImports) ==
  calculateComplexityTime(config, args.contractSource, args.compiledContract,
                          countImports)

\* the complexity time of the call in the other import mode
otherMode == complexityIn(~args.countImports)

\* import weights a configuration may hold, and config with two of them
ImportWeights ==
  { config.complexityFactors.importTimePerImport,
    config.complexityFactors.importTimeFlatRate }

withImportWeights(p, q) ==
  [ config EXCEPT !.complexityFactors.importTimePerImport = p,
                  !.complexityFactors.importTimeFlatRate = q ]

\* C4 as stated: with exactly one import occurrence and different import
\* weights the two modes differ for every artifact.
C4_ModesDifferForEveryArtifact ==
  ( /\ ComplexityReturned
    /\ occurrencesOf(args.contractSource, "import") = 1
    /\ config.complexityFactors.importTimePerImport
         # config.complexityFactors.importTimeFlatRate )
    => result.value # otherMode

\* C4 (amended): the two import modes differ by the import contribution only,
\* N * (importTimePerImport * imports - importTimeFlatRate); with exactly one
\* import occurrence and at least one unit they are equal only if the two
\* import weights are equal.
C4_ModesDifferByImportPart ==
  ComplexityReturned =>
    LET N == Len(args.compiledContract)
        f == config.complexityFactors
        imports == occurrencesOf(args.contractSource, "import")
        on == IF args.countImports THEN result.value ELSE otherMode
        off == IF args.countImports THEN otherMode ELSE result.value
    IN /\ on - off = N * (f.importTimePerImport * imports - f.importTimeFlatRate)
       /\ (imports = 1 /\ N >= 1 /\ on = off)
            => (f.importTimePerImport = f.importTimeFlatRate)
       /\ (imports = 1 /\ N >= 1 /\ f.importTimePerImport # f.importTimeFlatRate)
            => (on # off)
       /\ \A p \in ImportWeights, q \in ImportWeights :
            (imports = 1 /\ N >= 1)
              => ( ( calculateComplexityTime(withImportWeights(p, q),
                       args.contractSource, args.compiledContract, TRUE)
                     = calculateComplexityTime(withImportWeights(p, q),
                         args.contractSource, args.compiledContract, FALSE) )
                   <=> (p = q) )

C4_Witness ==
  /\ ComplexityReturned
  /\ args.countImports
  /\ occurrencesOf(args.contractSource, "import") = 1
  /\ occurrencesOf(args.contractSource, "assembly") = 1
  /\ Len(args.compiledContract) = 2
  /\ result.value # otherMode

RECURSIVE withCalls(_, _)
\* a source text with k more external-call occurrences at its end
withCalls(contractSource, k) ==
  IF k = 0 THEN contractSource
  ELSE Append(withCalls(contractSource, k - 1), ".call(")

\* C5: with the artifact, the import mode and the rest of the text fixed,
\* calculateComplexityTime does not decrease when external-call occurrences
\* are added.
C5_MonotoneInExternalCalls ==
  ComplexityReturned =>
    \A k \in 1..MaxExtraCalls :
      /\ calculateComplexityTime(config, withCalls(args.contractSource, k),
                                 args.compiledContract, args.countImports)
           >= calculateComplexityTime(config,
                                      withCalls(args.contractSource, k - 1),
                                      args.compiledContract, args.countImports)
      /\ calculateComplexityTime(config, withCalls(args.contractSource, k),
                                 args.compiledContract, args.countImports)
           >= result.value

C5_Witness ==
  /\ ComplexityReturned
  /\ Len(args.compiledContract) >= 1
  /\ occurrencesOf(args.contractSource, ".call(") = 1
  /\ calculateComplexityTime(config, withCalls(args.contractSource, 1),
                             args.compiledContract, args.countImports)
       > result.value

\* C7: the overlay merge is leaf-wise: every key of every group of the merged
\* configuration has the overlay's value when the overlay sets it and the
\* default value otherwise.
C7_LeafWiseMerge ==
  (LoadConfigReturned /\ ~result.value.threw) =>
    LET merged == result.value.value
        overlay == args.file.object
    IN \A g \in DOMAIN config :
         /\ g \in DOMAIN merged
         /\ \A k \in DOMAIN config[g] :
              /\ k \in DOMAIN merged[g]
              /\ IF g \in DOMAIN overlay /\ k \in DOMAIN overlay[g]
                 THEN merged[g][k] = overlay[g][k]
                 ELSE merged[g][k] = config[g][k]


InitPure ==
  /\ args \in PureArgs
  /\ result = Pending
  /\ solidityVersionCache = <<>>
  /\ httpsGetCalls = <<>>
  /\ call = [ c \in Callers |-> Idle ]
  /\ est = Idle
  /\ console = <<>>
  /\ solcLoads = <<>>
  /\ proc = "running"

NextPure ==
  \/ CallCalculateBaseTime
  \/ CallCalculateComplexityTime
  \/ CallEstimateUpgradeabilityComplexity
  \/ CallLoadConfigFromFile

SpecPure == InitPure /\ [][NextPure]_vars

(***************************************************************************)
(* Properties of the version resolver and of the pipeline                  *)
(***************************************************************************)
\* C6: once a getFullVersion call for a constraint has completed, a later call
\* for the same constraint returns the same value and does no catalog fetch,
\* whether the constraint is in the catalog or not.
C6_SecondCallUsesCache ==
  \A a \in Callers, b \in Callers :
    ( /\ call[b].pc # "idle"
      /\ call[b].versionShort # null
      /\ a \in call[b].after
      /\ call[a].versionShort = call[b].versionShort )
      => /\ ~call[b].fetched
         /\ (call[b].pc = "resolved") => (call[b].value = call[a].value)

\* the await of the version resolution of the estimate has ended with null,
\* the value the resolver gives a constraint that has no catalog entry
estimateVersionNotFound ==
  /\ est.pc \notin { "idle", "awaitVersion" }
  /\ call[0].pc = "resolved"
  /\ call[0].versionShort # null
  /\ call[0].value = Null

\* C8: when the declared constraint has no catalog entry the estimate fails
\* with VersionNotFound and solc.loadRemoteVersion is never called.
C8_NoCompileWhenVersionNotFound ==
  estimateVersionNotFound =>
    /\ est.pc = "rejected"
    /\ est.error = "VersionNotFound"
    /\ solcLoads = <<>>

\* the estimate got a compile result with an error-severity diagnostic
compiledWithError ==
  /\ est.pc \in { "exited", "done" }
  /\ hasError(est.compiledOutput.errors)

\* C9: when the compile result holds an error-severity diagnostic, the message
\* of every diagnostic of the list is reported, the process exits, and no
\* base, complexity or upgradeability time is computed or reported.
C9_AllDiagnosticsReported ==
  compiledWithError =>
    LET errors == est.compiledOutput.errors
    IN /\ est.pc = "exited"
       /\ proc = "exit(1)"
       /\ \E i \in 1..Len(console) :
            /\ console[i].stream = "error"
            /\ Len(console[i].messages) = Len(errors)
            /\ \A j \in 1..Len(errors) :
                 console[i].messages[j] = errors[j].formattedMessage
       /\ \A i \in 1..Len(console) : console[i].stream # "log"
       /\ ~ENABLED Next

C9_Witness ==
  /\ compiledWithError
  /\ Len(est.compiledOutput.errors) = 2
  /\ est.compiledOutput.errors[1].severity = "warning"
  /\ est.compiledOutput.errors[2].severity = "error"
  /\ Len(console) = 1
  /\ console[1].messages = << "m2", "m1" >>

\* the hours logged under a label
logged(label) ==
  { console[i].hours : i \in { j \in 1..Len(console) :
       console[j].stream = "log" /\ console[j].label = label } }

\* C10: on a successful run base, complexity and upgradeability time are each
\* reported, the reported total is their sum, and all four are non-negative.
C10_TotalIsSumOfParts ==
  (est.pc = "done") =>
    \E b \in logged("Base Time"), c \in logged("Complexity Time"),
       u \in logged("Upgradeability Complexity Time") :
      /\ logged("Base Time") = {b}
      /\ logged("Complexity Time") = {c}
      /\ logged("Upgradeability Complexity Time") = {u}
      /\ logged("Total estimated audit time") = { b + c + u }
      /\ b >= 0 /\ c >= 0 /\ u >= 0 /\ b + c + u >= 0
      /\ b = calculateBaseTime(config, splitLines(est.contractSource))
      /\ c = calculateComplexityTime(config, est.contractSource,
               est.compiledOutput.contracts, est.options.countImports)
      /\ u = estimateUpgradeabilityComplexity(config, est.contractSource)

C10_Witness ==
  /\ est.pc = "done"
  /\ logged("Base Time") = { config.baseTimes.medium }
  /\ logged("Upgradeability Complexity Time") = { fiveWeights }
  /\ \E c \in logged("Complexity Time") :
       /\ c > 0
       /\ logged("Total estimated audit time")
            = { config.baseTimes.medium + c + fiveWeights }

\* C11: the overlay is optional: a getEstimate run without a configPath does
\* not fail at the configuration stage but goes on with the default weights.
C11_OverlayOptional ==
  (est.pc # "idle" /\ est.options.configFile = NoConfigPath) =>
    ~(est.pc = "rejected" /\ est.error = "Error loading external config")

\* the per-leaf merge of an overlay over the defaults
leafMerge(defaults, overlay) ==
  [ g \in DOMAIN defaults |->
      IF g \in DOMAIN overlay THEN spread(defaults[g], overlay[g])
      ELSE defaults[g] ]

\* the version of the estimate was resolved to a build of the catalog
estimateVersionResolved == call[0].pc = "resolved" /\ truthy(call[0].value)

\* C12: with a valid overlay the scoring functions read the defaults with the
\* overlay's keys replaced: the reported times are those computed with the
\* merged weights.
C12_ScoringUsesOverlay ==
  ( /\ est.pc = "done"
    /\ est.options.configFile.kind = "json"
    /\ estimateVersionResolved ) =>
    LET weights == leafMerge(config, est.options.configFile.object)
    IN /\ logged("Base Time")
            = { calculateBaseTime(weights, splitLines(est.contractSource)) }
       /\ logged("Complexity Time")
            = { calculateComplexityTime(weights, est.contractSource,
                  est.compiledOutput.contracts, est.options.countImports) }
       /\ logged("Upgradeability Complexity Time")
            = { estimateUpgradeabilityComplexity(weights, est.contractSource) }

\* C13: once a key is in solidityVersionCache its value never changes.
C13_CacheValueNeverChanges ==
  [][ \A k \in DOMAIN solidityVersionCache :
        /\ k \in DOMAIN solidityVersionCache'
        /\ solidityVersionCache'[k] = solidityVersionCache[k] ]_vars

\* the estimate read a source text in which no version declaration matches
estimateWithoutDeclaration ==
  /\ est.pc # "idle"
  /\ est.options.configFile.kind = "json"
  /\ est.options.sourceFile.kind = "text"
  /\ pragmaMatches(est.options.sourceFile.text) = {}

\* C14: without a version declaration the estimate fails with
\* MissingVersionDeclaration and neither fetches the catalog nor loads the
\* compiler nor scores; with several declarations the first one is used.
C14_MissingDeclarationShortCircuits ==
  /\ estimateWithoutDeclaration =>
       /\ est.pc = "rejected"
       /\ est.error = "MissingVersionDeclaration"
       /\ httpsGetCalls = <<>>
       /\ solcLoads = <<>>
       /\ console = <<>>
  /\ (est.pc \in { "awaitVersion", "awaitCompile" }
        /\ pragmaMatches(est.contractSource) # {})
       => \E i \in pragmaMatches(est.contractSource) :
            /\ \A j \in pragmaMatches(est.contractSource) : i <= j
            /\ est.solidityVersionShort = pragmaCapture[est.contractSource[i]]

\* C15: a getFullVersion call that missed the cache is settled once its
\* request has errored or its response has ended, parsable or not: it is
\* resolved, or rejected with no cache entry written by it.
C15_MissSettles ==
  \A c \in Callers :
    (call[c].pc \notin { "idle", "fetching" }) =>
      call[c].pc \in { "resolved", "rejected" }

\* the calls for a constraint whose catalog fetch is in flight
inFlight(versionShort) ==
  { c \in Callers :
      call[c].pc = "fetching" /\ call[c].versionShort = versionShort }

\* the calls made for a constraint
calledFor(versionShort) ==
  { c \in Callers :
      call[c].pc # "idle" /\ call[c].versionShort = versionShort }

\* C16 as stated: at most one catalog fetch per constraint is in flight.
C16_AtMostOneInFlight ==
  \A v \in VersionShorts : Cardinality(inFlight(v)) <= 1

\* how often https.get was called for a constraint
getCalls(counts, versionShort) ==
  IF versionShort \in DOMAIN counts THEN counts[versionShort] ELSE 0

\* C16 (amended): every call that finds no non-null value for its constraint
\* in the cache issues one catalog fetch of its own, also while another fetch
\* for the constraint is in flight; only a call that finds a non-null value
\* returns it with no fetch.
C16_OneFetchPerMiss ==
  [][ \A c \in Callers :
        (call[c].pc = "idle" /\ call'[c].pc # "idle") =>
          LET v == call'[c].versionShort
          IN IF cacheHit(solidityVersionCache, v)
             THEN /\ getCalls(httpsGetCalls', v) = getCalls(httpsGetCalls, v)
                  /\ call'[c].pc = "resolved"
                  /\ call'[c].value = solidityVersionCache[v]
             ELSE /\ getCalls(httpsGetCalls', v)
                       = getCalls(httpsGetCalls, v) + 1
                  /\ call'[c].pc = "fetching"
                  /\ Cardinality({ d \in Callers :
                         call'[d].pc = "fetching" /\ call'[d].versionShort = v })
                       = Cardinality(inFlight(v)) + 1
    ]_vars

C16_Witness ==
  \E v \in VersionShorts :
    /\ Cardinality(inFlight(v)) = 2
    /\ v \in DOMAIN httpsGetCalls
    /\ httpsGetCalls[v] = 2

\* the estimate got a compile result whose diagnostics are warnings only
compiledWithWarningsOnly ==
  /\ est.pc \in { "exited", "done" }
  /\ estimateVersionResolved
  /\ Len(est.compiledOutput.errors) > 0
  /\ ~hasError(est.compiledOutput.errors)

\* C17: a compile result with warning-severity diagnostics only is usable: the
\* estimate goes on to scoring and reports the breakdown.
C17_WarningsDoNotAbort ==
  compiledWithWarningsOnly =>
    /\ est.pc = "done"
    /\ proc = "running"
    /\ logged("Total estimated audit time") # {}

====
